---- MODULE Spec2Model ----
(***************************************************************************)
(* The task scheduler of lune (packages/lib/src/lua/task/scheduler.rs):    *)
(* a task store keyed by task reference, two lanes of references (instant, *)
(* deferred), a set of pending futures, an exit code, and the step         *)
(* resume_queue that resumes one unit of work.                             *)
(*                                                                         *)
(* A resume_queue call is not atomic in the program: it suspends while it  *)
(* awaits the future set (pc = "polling", the futures lock held), and it   *)
(* runs a Lua continuation that may call back into the scheduler           *)
(* (pc = "running", no lock held).  On the future path it also releases    *)
(* the lock of the instant lane between pushing the promoted task and      *)
(* popping the front (pc = "promoted").  The model cuts the call at these  *)
(* three points.  A Rust panic unwinds out of the scheduler: the model *)
(* records the state the panic leaves and stops (panicked).  When a sleep  *)
(* ends is decided by the clock, which the model leaves open: any pending  *)
(* future may be the next one to complete.                                 *)
(***************************************************************************)
EXTENDS Integers, Sequences, FiniteSets, TLC

\* ---------------------------------------------------------------- bounds
MaxGuid == 3            \* tasks created in one run

\* ----------------------------------------------------------- value types
SUCCESS == 0
ExitCodes == {SUCCESS, 1}

TaskKind == {"Instant", "Deferred", "Future"}

TaskReference(kind, g) == [kind |-> kind, guid |-> g]

NoRef == [kind |-> "None", guid |-> 0]

\* Option<T>: None is the empty tuple, Some(x) the one-element tuple.
None == <<>>
Some(x) == <<x>>

\* what a caller may hand to a scheduling entry point as thread_or_function
LuaValues == {"Thread", "Function", "Nil"}
\* argument lists handed to the scheduling entry points
ArgLists == {<<>>}
\* after_secs
Delays == {1}

\* LuaRegistryKey: the two registry values create_task stores for the task with guid g
ThreadKey(g) == <<g, "thread">>
ArgsKey(g) == <<g, "args">>

\* TaskFutureResult without the reference: Ok(None), Ok(Some(args)), Err(e)
OkNone == [ok |-> TRUE, args |-> None]
OkArgs == [ok |-> TRUE, args |-> Some(<<"f">>)]
FutErr == [ok |-> FALSE, args |-> None]
TaskFutureResult == {OkNone, OkArgs, FutErr}

VARIABLES
    guid,                   \* AtomicUsize guid
    tasks,                  \* HashMap<TaskReference, Task>
    futures,                \* FuturesUnordered<TaskFuture>: the reference each future carries
    task_queue_instant,     \* VecDeque<TaskReference>
    task_queue_deferred,    \* VecDeque<TaskReference>
    exit_code_set,          \* AtomicBool
    exit_code,              \* Mutex<ExitCode>
    registry,               \* the Lua registry: live registry key -> stored value
    pc,                     \* "idle" | "polling" | "promoted" | "running": where
                            \* resume_queue stands
    cur,                    \* the frame of the resume_queue call in progress
    panicked,               \* a panic has unwound out of the scheduler
    future_results,         \* the results the bodies of the registered futures produce
    \* ---- what the callers have observed
    last,                   \* the latest call that returned, and what it returned
    issued,                 \* guids of the references returned by successful scheduling calls
    cancelled,              \* references a caller's cancel_task returned true for, whose
                            \* lane entry or future has not been consumed yet
    failed,                 \* references whose future resolved with a failure
    last_set                \* the code of the latest set_exit_code call

sched == <<guid, tasks, futures, task_queue_instant, task_queue_deferred,
           exit_code_set, exit_code, registry>>
vars == <<guid, tasks, futures, task_queue_instant, task_queue_deferred,
          exit_code_set, exit_code, registry, pc, cur, panicked,
          future_results, last, issued, cancelled, failed, last_set>>

\* ------------------------------------------------------- pure operations
NextGuid_same(g) == g

\* fetch_add(1) + 1
NextGuid(g) == g + 1

IsThreadOrFunction(v) == v \in {"Thread", "Function"}

Range(q) == {q[i] : i \in 1..Len(q)}

TasksInsert(t, r, task) ==
    [x \in (DOMAIN t) \cup {r} |-> IF x = r THEN task ELSE t[x]]

TasksRemove_keep(t, r) == t

TasksRemove(t, r) == [x \in (DOMAIN t) \ {r} |-> t[x]]

push_front(q, r) == <<r>> \o q

push_back_front(q, r) == <<r>> \o q

push_back(q, r) == q \o <<r>>

insert_1_back(q, r) == q \o <<r>>

\* VecDeque::insert(1, r) on a queue of length >= 1
insert_1(q, r) == <<Head(q), r>> \o Tail(q)

pop_front_peek(q) == q

\* what pop_front leaves in the queue
pop_front(q) == Tail(q)

NoSnap == [exit_code |-> None, num_instant |-> 0, num_deferred |-> 0,
           num_future |-> 0, num_total |-> 0]

StateOf_none(set, code, qi, qd, futs, tsks) ==
    [exit_code |-> None,
     num_instant |-> Len(qi), num_deferred |-> Len(qd),
     num_future |-> Cardinality(futs), num_total |-> Cardinality(DOMAIN tsks)]

\* TaskScheduler::state on the given contents
StateOf(set, code, qi, qd, futs, tsks) ==
    [exit_code |-> IF set THEN Some(code) ELSE None,
     num_instant |-> Len(qi), num_deferred |-> Len(qd),
     num_future |-> Cardinality(futs), num_total |-> Cardinality(DOMAIN tsks)]

state == StateOf(exit_code_set, exit_code, task_queue_instant,
                 task_queue_deferred, futures, tasks)

\* the counts of a snapshot: what resume_queue reads of its status
Counts(status) == [status EXCEPT !.exit_code = None]

LocksHeld_through_resume ==
    IF pc = "polling" \/ (pc = "running" /\ cur.src = "Future")
    THEN {"futures"} ELSE {}

\* the scheduler locks a resume_queue call holds where it is suspended: the futures
\* lock from try_lock to the end of futs.next().await; the guards of the task
\* store and of the lanes are dropped before the thread is resumed
LocksHeld == IF pc = "polling" THEN {"futures"} ELSE {}

futures_locked == "futures" \in LocksHeld

next_queue_future_exists == futures # {}

Branch_deferred_first(status, future_exists) ==
    IF status.num_deferred > 0 THEN "Deferred"
    ELSE IF status.num_instant > 0 THEN "Instant"
    ELSE IF future_exists THEN "Future"
    ELSE "Finished"

Branch_always_polls(status, future_exists) ==
    IF status.num_instant > 0 THEN "Instant"
    ELSE IF status.num_deferred > 0 THEN "Deferred"
    ELSE "Future"

\* the branch resume_queue takes
Branch(status, future_exists) ==
    IF status.num_instant > 0 THEN "Instant"
    ELSE IF status.num_deferred > 0 THEN "Deferred"
    ELSE IF future_exists THEN "Future"
    ELSE "Finished"

\* create_registry_value
RegistryInsert(reg, key, value) ==
    [k \in (DOMAIN reg) \cup {key} |-> IF k = key THEN value ELSE reg[k]]

\* remove_registry_value on each key of ks
RegistryRemove(reg, ks) == [k \in (DOMAIN reg) \ ks |-> reg[k]]

Elapsed_zero(queued_at) == [elapsed_since |-> 0]

\* task.queued_at.elapsed(): the time since the instant queued_at
Elapsed(queued_at) == [elapsed_since |-> queued_at]

ResumeArgs_empty_is_none(override_args, stored_args, queued_at) ==
    IF override_args # None THEN override_args[1]
    ELSE IF stored_args # None /\ stored_args[1] # <<>> THEN stored_args[1]
    ELSE <<Elapsed(queued_at)>>

\* the arguments resume_task resumes the thread with: override_args, or else the
\* stored arguments, or else the time elapsed since the task was queued
ResumeArgs(override_args, stored_args, queued_at) ==
    IF override_args # None THEN override_args[1]
    ELSE IF stored_args # None THEN stored_args[1]
    ELSE <<Elapsed(queued_at)>>

\* match self.cancel_task(task) { Err(cancel_err) => cancel_err, Ok(_) => fut_err }
error_prefer_cancel(cancel_ok) == IF cancel_ok THEN "future" ELSE "cancel"

NoCur == [src |-> "None", ref |-> NoRef, owner |-> NoRef, pre |-> NoSnap,
          thread |-> <<>>, args |-> <<>>, override |-> None, resume_args |-> None,
          stale |-> FALSE]

\* the record of a call that returned; the fields after state are resume_queue's
Returned(op, out, ref, snap, pre, src, did_resume, resume_args, err, stale) ==
    [op |-> op, out |-> out, ref |-> ref, state |-> snap, pre |-> pre, src |-> src,
     resumed |-> did_resume, args |-> resume_args, err |-> err, stale |-> stale]

Call(op, out, ref) ==
    Returned(op, out, ref, NoSnap, NoSnap, "None", FALSE, None, "none", FALSE)

NoLast == Call("none", "none", NoRef)

\* ------------------------------------------------------------------ Init
InitWith(results) ==
    /\ guid = 0
    /\ tasks = [r \in {} |-> NoRef]
    /\ futures = {}
    /\ task_queue_instant = <<>>
    /\ task_queue_deferred = <<>>
    /\ exit_code_set = FALSE
    /\ exit_code = SUCCESS
    /\ registry = [k \in {} |-> None]
    /\ pc = "idle"
    /\ cur = NoCur
    /\ panicked = FALSE
    /\ future_results = results
    /\ last = NoLast
    /\ issued = <<>>
    /\ cancelled = {}
    /\ failed = {}
    /\ last_set = None

\* the futures this file registers (schedule_delayed, schedule_wait) resolve Ok(None)
Init == InitWith({OkNone})

\* --------------------------------------------------- scheduling a task
\* create_task past its type check: the two registry values, the next guid, the
\* task in the store
create_task(kind, thread_args) ==
    LET g == NextGuid(guid) IN
    /\ guid' = g
    /\ registry' = RegistryInsert(RegistryInsert(registry, ArgsKey(g), thread_args),
                                  ThreadKey(g), "thread")
    /\ tasks' = TasksInsert(tasks, TaskReference(kind, g),
                            [thread |-> ThreadKey(g), args |-> ArgsKey(g),
                             queued_at |-> g])

Rejected_creates(op) ==
    /\ guid < MaxGuid
    /\ create_task("Instant", None)
    /\ last' = Call("schedule", "err", NoRef)
    /\ UNCHANGED <<futures, task_queue_instant, task_queue_deferred, exit_code_set,
                   exit_code, pc, cur, panicked, future_results, issued, cancelled,
                   failed, last_set>>

\* create_task returned Err: nothing was created
Rejected(op) ==
    /\ last' = Call("schedule", "err", NoRef)
    /\ UNCHANGED <<sched, pc, cur, panicked, future_results, issued, cancelled,
                   failed, last_set>>

\* schedule, for the kinds Instant and Deferred
schedule(op, kind, thread_or_function, thread_args, after_current_resume) ==
    IF ~IsThreadOrFunction(thread_or_function) THEN Rejected(op)
    ELSE
        LET task_ref == TaskReference(kind, NextGuid(guid)) IN
        /\ guid < MaxGuid
        /\ create_task(kind, thread_args)
        /\ IF kind = "Instant" /\ after_current_resume
              /\ ~(Len(task_queue_instant) > 0) THEN
                \* assert!(queue.len() > 0, ..) fails, after create_task
                /\ panicked' = TRUE
                /\ last' = Call(op, "panic", NoRef)
                /\ UNCHANGED <<task_queue_instant, task_queue_deferred, issued>>
           ELSE
                /\ task_queue_instant' =
                       IF kind # "Instant" THEN task_queue_instant
                       ELSE IF after_current_resume
                            THEN insert_1(task_queue_instant, task_ref)
                            ELSE push_front(task_queue_instant, task_ref)
                /\ task_queue_deferred' =
                       IF kind = "Deferred"
                       THEN push_back(task_queue_deferred, task_ref)
                       ELSE task_queue_deferred
                /\ issued' = Append(issued, task_ref.guid)
                /\ last' = Call(op, "ok", task_ref)
                /\ UNCHANGED panicked
        /\ UNCHANGED <<futures, exit_code_set, exit_code, pc, cur, future_results,
                       cancelled, failed, last_set>>

schedule_current_resume(thread_or_function, thread_args) ==
    /\ ~panicked
    /\ schedule("schedule_current_resume", "Instant", thread_or_function,
                Some(thread_args), FALSE)

schedule_after_current_resume(thread_or_function, thread_args) ==
    /\ ~panicked
    /\ schedule("schedule_after_current_resume", "Instant", thread_or_function,
                Some(thread_args), TRUE)

schedule_deferred(thread_or_function, thread_args) ==
    /\ ~panicked
    /\ schedule("schedule_deferred", "Deferred", thread_or_function,
                Some(thread_args), FALSE)

\* the body schedule_delayed and schedule_wait share: create the Future task, take
\* the futures lock with try_lock().expect(..), push a future that sleeps
\* after_secs and resolves to (task_ref, Ok(None))
schedule_sleep(op, after_secs, thread_or_function, stored_args) ==
    IF ~IsThreadOrFunction(thread_or_function) THEN Rejected(op)
    ELSE
        LET task_ref == TaskReference("Future", NextGuid(guid)) IN
        /\ guid < MaxGuid
        /\ create_task("Future", stored_args)
        /\ IF futures_locked THEN
                \* try_lock fails while resume_next_queue_future awaits: expect panics
                /\ panicked' = TRUE
                /\ last' = Call(op, "panic", NoRef)
                /\ UNCHANGED <<futures, issued>>
           ELSE
                /\ futures' = futures \cup {task_ref}
                /\ issued' = Append(issued, task_ref.guid)
                /\ last' = Call(op, "ok", task_ref)
                /\ UNCHANGED panicked
        /\ UNCHANGED <<task_queue_instant, task_queue_deferred, exit_code_set,
                       exit_code, pc, cur, future_results, cancelled, failed, last_set>>

schedule_delayed(after_secs, thread_or_function, thread_args) ==
    /\ ~panicked
    /\ schedule_sleep("schedule_delayed", after_secs, thread_or_function,
                      Some(thread_args))

schedule_wait(after_secs, thread_or_function) ==
    /\ ~panicked
    /\ schedule_sleep("schedule_wait", after_secs, thread_or_function, None)

\* ------------------------------------------------------------ cancelling
contains_task(reference) == reference \in DOMAIN tasks

cancel_task_forget(reference) ==
    UNCHANGED <<tasks, registry, task_queue_instant, task_queue_deferred>>

cancel_task_purge(reference) ==
    /\ IF reference \in DOMAIN tasks THEN
            LET task == tasks[reference] IN
            /\ tasks' = TasksRemove(tasks, reference)
            /\ registry' = RegistryRemove(registry, {task.thread, task.args})
       ELSE UNCHANGED <<tasks, registry>>
    /\ task_queue_instant' = SelectSeq(task_queue_instant, LAMBDA x : x # reference)
    /\ task_queue_deferred' = SelectSeq(task_queue_deferred, LAMBDA x : x # reference)

\* cancel_task's effect on the store, the registry and the lanes; it returns
\* Ok(reference \in DOMAIN tasks)
cancel_task(reference) ==
    /\ IF reference \in DOMAIN tasks THEN
            LET task == tasks[reference] IN
            /\ tasks' = TasksRemove(tasks, reference)
            /\ registry' = RegistryRemove(registry, {task.thread, task.args})
       ELSE UNCHANGED <<tasks, registry>>
    /\ UNCHANGED <<task_queue_instant, task_queue_deferred>>

\* the references a caller holds: those of the tasks, lanes and futures, the one
\* the latest call returned and the one being resumed
HeldRefs ==
    ((DOMAIN tasks) \cup Range(task_queue_instant) \cup Range(task_queue_deferred)
        \cup futures \cup {last.ref, cur.ref}) \ {NoRef}

\* a caller's cancel_task(reference)
CancelTask(reference) ==
    /\ ~panicked
    /\ cancel_task(reference)
    /\ last' = [Call("cancel_task",
                     IF reference \in DOMAIN tasks THEN "true" ELSE "false",
                     reference) EXCEPT !.stale = reference \in cancelled]
    /\ cancelled' = IF reference \in DOMAIN tasks
                    THEN cancelled \cup {reference} ELSE cancelled
    /\ UNCHANGED <<guid, futures, exit_code_set, exit_code, pc, cur, panicked,
                   future_results, issued, failed, last_set>>

\* ------------------------------------------------- snapshot and exit code
\* a caller's state(): try_lock().expect(..) on the futures lock panics while
\* resume_next_queue_future awaits
GetState ==
    /\ ~panicked
    /\ IF futures_locked THEN
            /\ panicked' = TRUE
            /\ last' = Call("state", "panic", NoRef)
       ELSE
            /\ last' = [Call("state", "ok", NoRef) EXCEPT !.state = state]
            /\ UNCHANGED panicked
    /\ UNCHANGED <<sched, pc, cur, future_results, issued, cancelled, failed, last_set>>

set_exit_code(code) ==
    /\ ~panicked
    /\ exit_code' = code
    /\ exit_code_set' = TRUE
    /\ last_set' = Some(code)
    /\ last' = Call("set_exit_code", "ok", NoRef)
    /\ UNCHANGED <<guid, tasks, futures, task_queue_instant, task_queue_deferred,
                   registry, pc, cur, panicked, future_results, issued, cancelled,
                   failed>>

\* ------------------------------------------------------------- resuming
\* resume_task(reference, override_args), up to the point where the thread is
\* resumed.  qi, qd and futs are the lanes and the future set as the caller left
\* them (the reference already popped), pre the snapshot resume_queue took and
\* src the branch it took.
resume_task(reference, override_args, qi, qd, futs, pre, src) ==
    /\ task_queue_instant' = qi
    /\ task_queue_deferred' = qd
    /\ futures' = futs
    /\ cancelled' = cancelled \ {reference}
    /\ IF reference \notin DOMAIN tasks THEN
            \* None => return Ok(()): the task was removed
            /\ pc' = "idle"
            /\ cur' = NoCur
            /\ last' = Returned("resume_queue", "TaskSuccessful", reference,
                                StateOf(exit_code_set, exit_code, qi, qd, futs, tasks),
                                pre, src, FALSE, None, "none",
                                reference \in cancelled)
            /\ UNCHANGED tasks
       ELSE
            LET task == tasks[reference] IN
            /\ tasks' = TasksRemove(tasks, reference)
            /\ pc' = "running"
            /\ cur' = [src |-> src, ref |-> reference, owner |-> cur.owner,
                       pre |-> pre,
                       thread |-> task.thread, args |-> task.args,
                       override |-> override_args,
                       resume_args |-> Some(ResumeArgs(override_args,
                                                       registry[task.args],
                                                       task.queued_at)),
                       stale |-> reference \in cancelled]
            /\ UNCHANGED last
    /\ UNCHANGED <<guid, exit_code_set, exit_code, registry, panicked,
                   future_results, issued, last_set>>

\* resume_next_queue_task(kind, override_args) on the lanes qi, qd
resume_next_queue_task(kind, override_args, qi, qd, futs, pre, src) ==
    LET queue == IF kind = "Instant" THEN qi ELSE qd IN
    IF queue = <<>> THEN
        \* pop_front gave None
        /\ task_queue_instant' = qi
        /\ task_queue_deferred' = qd
        /\ futures' = futs
        /\ pc' = "idle"
        /\ cur' = NoCur
        /\ last' = Returned("resume_queue",
                            IF Cardinality(DOMAIN tasks) > 0
                            THEN "TaskSuccessful" ELSE "Finished",
                            NoRef,
                            StateOf(exit_code_set, exit_code, qi, qd, futs, tasks),
                            pre, src, FALSE, None, "none", FALSE)
        /\ UNCHANGED <<guid, tasks, exit_code_set, exit_code, registry, panicked,
                       future_results, issued, cancelled, last_set>>
    ELSE
        resume_task(Head(queue), override_args,
                    IF kind = "Instant" THEN pop_front(qi) ELSE qi,
                    IF kind = "Deferred" THEN pop_front(qd) ELSE qd,
                    futs, pre, src)

\* the resumed thread reaches its next yield, its return or an error, and
\* resume_task and resume_next_queue_task finish
resume_task_return(raised) ==
    /\ ~panicked
    /\ pc = "running"
    /\ pc' = "idle"
    /\ cur' = NoCur
    /\ IF raised THEN
            \* thread.resume(..)? returns the error: the two keys are not removed
            /\ UNCHANGED registry
            /\ last' = Returned("resume_queue", "TaskErrored", cur.ref, state,
                                cur.pre, cur.src, TRUE, cur.resume_args, "task",
                                cur.stale)
       ELSE
            /\ registry' = RegistryRemove(registry, {cur.thread, cur.args})
            /\ last' = Returned("resume_queue", "TaskSuccessful", cur.ref, state,
                                cur.pre, cur.src, TRUE, cur.resume_args, "none",
                                cur.stale)
    /\ UNCHANGED <<guid, tasks, futures, task_queue_instant, task_queue_deferred,
                   exit_code_set, exit_code, panicked, future_results, issued,
                   cancelled, failed, last_set>>

future_ready_keep(task, args) ==
    /\ futures' = futures
    /\ task_queue_instant' = push_front(task_queue_instant, task)
    /\ pc' = "promoted"
    /\ cur' = [cur EXCEPT !.owner = task, !.override = args]
    /\ UNCHANGED <<guid, tasks, task_queue_deferred, exit_code_set, exit_code,
                   registry, panicked, future_results, last, issued, cancelled,
                   last_set>>

\* the arm (task, Ok(args)) up to drop(queue_guard): the future is out of the
\* set, the task is pushed to the front of the instant lane and the lock of the
\* lane is released
future_ready(task, args) ==
    /\ futures' = futures \ {task}
    /\ task_queue_instant' = push_front(task_queue_instant, task)
    /\ pc' = "promoted"
    /\ cur' = [cur EXCEPT !.owner = task, !.override = args]
    /\ UNCHANGED <<guid, tasks, task_queue_deferred, exit_code_set, exit_code,
                   registry, panicked, future_results, last, issued, cancelled,
                   last_set>>

\* the rest of the arm: resume_next_queue_task(TaskKind::Instant, args) locks the
\* lane again and pops its front
resume_promoted ==
    /\ ~panicked
    /\ pc = "promoted"
    /\ resume_next_queue_task("Instant", cur.override, task_queue_instant,
                              task_queue_deferred, futures, cur.pre, "Future")
    /\ UNCHANGED failed

future_errored_resume(task) == future_ready(task, None)

\* the arm (task, Err(fut_err)) of resume_next_queue_future: cancel the task, do
\* not resume it, report the error
future_errored(task) ==
    /\ cancel_task(task)
    /\ futures' = futures \ {task}
    /\ pc' = "idle"
    /\ cur' = NoCur
    /\ cancelled' = cancelled \ {task}
    /\ last' = Returned("resume_queue", "TaskErrored", task,
                        StateOf(exit_code_set, exit_code, task_queue_instant,
                                task_queue_deferred, futures \ {task},
                                TasksRemove(tasks, task)),
                        cur.pre, "Future", FALSE, None,
                        error_prefer_cancel(TRUE), task \in cancelled)
    /\ UNCHANGED <<guid, exit_code_set, exit_code, panicked, future_results,
                   issued, last_set>>

\* resume_next_queue_future from the moment futs.next().await returns a result
resume_next_queue_future ==
    /\ ~panicked
    /\ pc = "polling"
    /\ \E task \in futures : \E result \in future_results :
        /\ failed' = IF result.ok THEN failed ELSE failed \cup {task}
        /\ IF ~result.ok THEN future_errored(task)
           ELSE future_ready(task, result.args)

\* resume_queue, up to its first suspension.  Called while another resume_queue
\* call awaits the future set, its state() panics on the futures lock.
resume_queue ==
    /\ ~panicked
    /\ pc \in {"idle", "polling"}
    /\ LET status == Counts(state)
           branch == Branch(status, next_queue_future_exists)
       IN  IF futures_locked THEN
               /\ panicked' = TRUE
               /\ last' = Call("resume_queue", "panic", NoRef)
               /\ UNCHANGED <<sched, pc, cur, future_results, issued, cancelled,
                              failed, last_set>>
           ELSE IF branch \in {"Instant", "Deferred"} THEN
               /\ resume_next_queue_task(branch, None, task_queue_instant,
                                         task_queue_deferred, futures, status, branch)
               /\ UNCHANGED failed
           ELSE
               /\ IF branch = "Future" THEN
                      \* resume_next_queue_future takes the futures lock and awaits
                      /\ pc' = "polling"
                      /\ cur' = [NoCur EXCEPT !.src = "Future", !.pre = status]
                      /\ UNCHANGED last
                  ELSE
                      /\ pc' = "idle"
                      /\ cur' = NoCur
                      /\ last' = Returned("resume_queue", "Finished", NoRef, state,
                                          status, "None", FALSE, None, "none", FALSE)
               /\ UNCHANGED <<sched, panicked, future_results, issued, cancelled,
                              failed, last_set>>

Next ==
    \/ \E v \in LuaValues, a \in ArgLists : schedule_current_resume(v, a)
    \/ \E v \in LuaValues, a \in ArgLists : schedule_after_current_resume(v, a)
    \/ \E v \in LuaValues, a \in ArgLists : schedule_deferred(v, a)
    \/ \E d \in Delays, v \in LuaValues, a \in ArgLists : schedule_delayed(d, v, a)
    \/ \E d \in Delays, v \in LuaValues : schedule_wait(d, v)
    \/ \E r \in HeldRefs : CancelTask(r)
    \/ GetState
    \/ \E c \in ExitCodes : set_exit_code(c)
    \/ resume_queue
    \/ resume_next_queue_future
    \/ resume_promoted
    \/ \E raised \in BOOLEAN : resume_task_return(raised)

Spec == Init /\ [][Next]_vars

\* the host loop awaits each resume_queue call before it makes the next one
HostLoop == pc = "idle" /\ resume_queue

\* the host loop keeps calling resume_queue, every sleep ends, a call that
\* promoted a task goes on to pop the lane, and a resumed thread reaches its next yield, its return or an error
Fairness ==
    /\ WF_vars(HostLoop)
    /\ WF_vars(resume_next_queue_future)
    /\ WF_vars(resume_promoted)
    /\ WF_vars(\E raised \in BOOLEAN : resume_task_return(raised))

SpecLive == Init /\ [][Next]_vars /\ Fairness

\* the same scheduler, its futures resolving to any value of TaskFutureResult
InitFut == InitWith(TaskFutureResult)

SpecFut == InitFut /\ [][Next]_vars

\* ==================================================================
\* The claims
\* ==================================================================
\* a resume_queue call begins in this step
StepBegins ==
    /\ pc = "idle"
    /\ pc' # "idle" \/ (last'.op = "resume_queue" /\ last' # last)

\* how often a reference occurs in the two lanes and the future set together
Occurrences(r) ==
    Cardinality({i \in 1..Len(task_queue_instant) : task_queue_instant[i] = r})
    + Cardinality({i \in 1..Len(task_queue_deferred) : task_queue_deferred[i] = r})
    + (IF r \in futures THEN 1 ELSE 0)

\* every reference a task was ever created under
CreatedRefs == [kind : TaskKind, guid : 1..guid]

\* C1: a resume_queue call returns Finished if and only if the task store was
\* empty when it was called, whatever stale references the lanes and the future
\* set still hold.
C1_FinishedIffStoreEmpty ==
    last.op = "resume_queue" => (last.out = "Finished" <=> last.pre.num_total = 0)

\* C2: a resume_queue call pops the instant lane if it is not empty, and else the
\* deferred lane if that is not empty; it awaits the future set only when both
\* lanes are empty.
C2_LanePriority ==
    [][StepBegins =>
        /\ (task_queue_instant # <<>> =>
                /\ task_queue_instant' = Tail(task_queue_instant)
                /\ task_queue_deferred' = task_queue_deferred
                /\ futures' = futures)
        /\ (task_queue_instant = <<>> /\ task_queue_deferred # <<>> =>
                /\ task_queue_deferred' = Tail(task_queue_deferred)
                /\ task_queue_instant' = task_queue_instant
                /\ futures' = futures)
        /\ (pc' = "polling" =>
                task_queue_instant = <<>> /\ task_queue_deferred = <<>>)]_vars

\* a call that found both lanes non-empty has resumed the front of the instant lane
C2_Witness ==
    /\ last.op = "resume_queue"
    /\ last.src = "Instant"
    /\ last.resumed
    /\ last.pre.num_instant > 0
    /\ last.pre.num_deferred > 0

\* C3: schedule_after_current_resume called while the instant lane is empty fails
\* and creates no task: the task store, both lanes and the future set are after
\* the failed call as they were before it.
C3_FailedCallCreatesNoTask ==
    [][(~panicked /\ panicked' /\ last'.op = "schedule_after_current_resume") =>
        UNCHANGED <<tasks, task_queue_instant, task_queue_deferred, futures>>]_vars

\* C4: once cancel_task(r) has returned true, the resume_queue call that pops r
\* (or receives r's completed future) resumes no continuation and reports
\* TaskSuccessful, and a further cancel_task(r) returns false.
C4_CancelledNeverResumed ==
    /\ (pc = "running" => ~cur.stale)
    /\ (last.op = "resume_queue" /\ last.stale =>
            ~last.resumed /\ last.out = "TaskSuccessful")
    /\ (last.op = "cancel_task" /\ last.stale => last.out = "false")

\* a call has popped a cancelled reference
C4_Witness ==
    /\ last.op = "resume_queue"
    /\ last.stale
    /\ last.ref.kind = "Instant"
    /\ last.out = "TaskSuccessful"

\* C5: every path that removes a task from the task store releases its two
\* registry values: no removed task keeps a registry entry, whether it was
\* resumed to a yield or return, resumed to an error, or cancelled.
C5_ReleasedOnEveryRemoval ==
    \A g \in 1..guid :
        ((\A r \in DOMAIN tasks : r.guid # g) /\ cur.ref.guid # g) =>
            (ThreadKey(g) \notin DOMAIN registry /\ ArgsKey(g) \notin DOMAIN registry)

\* C6, as claimed: between scheduler operations, a reference whose task is in the
\* task store occurs in exactly one of the instant lane, the deferred lane and the
\* future set, and a reference whose task has been removed occurs in none.
C6_Original ==
    (pc = "idle" /\ ~panicked) =>
        \A r \in CreatedRefs :
            Occurrences(r) = (IF r \in DOMAIN tasks THEN 1 ELSE 0)

\* C6, amended: a reference occurs at most once in the two lanes and the future
\* set together; one that a scheduling call returned and whose task is in the
\* store occurs exactly once; one whose task has been removed occurs only if
\* cancel_task removed the task, and then stays until it is popped.
C6_Amended ==
    \A r \in CreatedRefs :
        /\ Occurrences(r) <= 1
        /\ (r \in DOMAIN tasks /\ r.guid \in Range(issued) => Occurrences(r) = 1)
        /\ (r \notin DOMAIN tasks /\ Occurrences(r) = 1 => r \in cancelled)

\* between operations, a lane holds the reference of a cancelled task beside a
\* live one
C6_Witness ==
    /\ pc = "idle"
    /\ \E r \in cancelled : Occurrences(r) = 1 /\ r \notin DOMAIN tasks
    /\ \E r \in DOMAIN tasks : Occurrences(r) = 1

\* schedule_current_resume has just created A = last.ref in front of one pending
\* reference X, and in this step schedule_after_current_resume creates B
C7_Scenario ==
    /\ last.op = "schedule_current_resume" /\ last.out = "ok"
    /\ Len(task_queue_instant) = 2
    /\ Head(task_queue_instant) = last.ref
    /\ last'.op = "schedule_after_current_resume" /\ last'.out = "ok"

\* C7, as claimed: the instant lane is then [X, B, A].
C7_Original ==
    [][C7_Scenario =>
        task_queue_instant' = <<task_queue_instant[2], last'.ref, last.ref>>]_vars

\* C7, amended: the instant lane is then [A, B, X].
C7_Amended ==
    [][C7_Scenario =>
        task_queue_instant' = <<last.ref, last'.ref, task_queue_instant[2]>>]_vars

\* B = last.ref was created right after A, which stands in front of the older X
C7_Witness ==
    /\ last.op = "schedule_after_current_resume" /\ last.out = "ok"
    /\ Len(task_queue_instant) = 3
    /\ task_queue_instant[2] = last.ref
    /\ task_queue_instant[1] = TaskReference("Instant", last.ref.guid - 1)
    /\ task_queue_instant[3].guid < task_queue_instant[1].guid

\* C8: the guids of the references that successful scheduling calls return are
\* pairwise distinct and strictly increasing in call order, whatever the kinds,
\* and no two tasks in the store share a guid.
C8_GuidsIncrease ==
    /\ \A i, j \in 1..Len(issued) : i < j => issued[i] < issued[j]
    /\ (last.ref # NoRef /\ last.out = "ok" => last.ref.guid = issued[Len(issued)])
    /\ \A r1, r2 \in DOMAIN tasks : r1.guid = r2.guid => r1 = r2

\* three calls have returned references of three kinds
C8_Witness ==
    /\ Len(issued) = 3
    /\ {r.kind : r \in DOMAIN tasks} = TaskKind

\* C9, as claimed: once the snapshot reports Some(c), it reports Some(c) ever
\* after.
C9_Original ==
    [][\A c \in ExitCodes :
          state.exit_code = Some(c) => state'.exit_code = Some(c)]_vars

\* C9, amended: once set_exit_code has been called, the snapshot, every state()
\* result and every resume_queue result report Some of the code of the latest
\* set_exit_code call, and never None.
C9_Amended ==
    last_set # None =>
        /\ state.exit_code = last_set
        /\ (last.op \in {"state", "resume_queue"} /\ last.out # "panic" =>
                last.state.exit_code = last_set)

\* a resume_queue result reports the code set before it
C9_Witness ==
    /\ last.op = "resume_queue"
    /\ last_set = Some(1)
    /\ last.state.exit_code = Some(1)

\* C10: when a future resolves with a failure, its task is out of the task store,
\* its continuation is resumed neither in that call nor later, and the call
\* reports TaskErrored with the error the match on cancel_task's result picks.
C10_FailedFutureNeverResumed ==
    /\ \A r \in failed : r \notin DOMAIN tasks
    /\ (pc = "running" => cur.ref \notin failed)
    /\ (last.op = "resume_queue" /\ last.ref \in failed =>
            /\ last.out = "TaskErrored"
            /\ last.err = "future"
            /\ ~last.resumed)

\* the future of a task that was still in the store has failed
C10_Witness ==
    /\ last.op = "resume_queue"
    /\ last.ref \in failed
    /\ ~last.stale
    /\ last.out = "TaskErrored"

\* C11: a task whose stored argument list is present, even empty (schedule_delayed
\* with no arguments), is resumed after its future resolved with that stored list
\* and not with the elapsed time; override arguments produced by the future take
\* precedence over the stored list.
C11_StoredArgsBeforeElapsed ==
    pc = "running" =>
        LET stored == registry[cur.args] IN
        /\ (cur.override # None => cur.resume_args = cur.override)
        /\ (cur.override = None /\ stored # None =>
                /\ cur.resume_args = stored
                /\ cur.resume_args # Some(<<[elapsed_since |-> cur.ref.guid]>>))

\* a task of schedule_delayed with the empty list, promoted by its future, runs
\* with the empty list
C11_Witness ==
    /\ pc = "running"
    /\ cur.src = "Future"
    /\ cur.ref.kind = "Future"
    /\ cur.override = None
    /\ registry[cur.args] = Some(<<>>)
    /\ cur.resume_args = Some(<<>>)

\* C12: a task created by schedule_wait, resumed after its future resolved with no
\* arguments, receives exactly one argument, the time elapsed since the task was
\* created; a task takes the elapsed-time branch only if it has no stored argument
\* list, and schedule_wait is the only entry point that stores none.
C12_WaitGetsElapsed ==
    /\ [](pc = "running" =>
            LET elapsed == Some(<<[elapsed_since |-> cur.ref.guid]>>) IN
            /\ (registry[cur.args] = None =>
                    /\ cur.ref.kind = "Future"
                    /\ cur.resume_args = elapsed
                    /\ Len(cur.resume_args[1]) = 1)
            /\ (cur.resume_args = elapsed => registry[cur.args] = None))
    /\ [][(last' # last /\ last'.out = "ok" /\ last'.ref # NoRef) =>
            (registry'[ArgsKey(last'.ref.guid)] = None <=> last'.op = "schedule_wait")]_vars

\* a schedule_wait task, not the first task created, runs with the time elapsed
\* since its own creation
C12_Witness ==
    /\ pc = "running"
    /\ cur.src = "Future"
    /\ cur.ref.guid > 1
    /\ registry[cur.args] = None
    /\ cur.resume_args = Some(<<[elapsed_since |-> cur.ref.guid]>>)

\* C13: a continuation that raises is reported as TaskErrored by the step that
\* resumed it and is never resumed again: a task is out of the task store before
\* its continuation runs, a step resumes only a task that is in the store, and a
\* reference once out of the store never comes back into it.
C13_RaisedNeverResumedAgain ==
    /\ [](pc = "running" => cur.ref \notin DOMAIN tasks)
    /\ []((last.op = "resume_queue" /\ last.out = "TaskErrored" /\ last.err = "task") =>
            last.resumed /\ ~contains_task(last.ref))
    /\ [][(pc # "running" /\ pc' = "running") => cur'.ref \in DOMAIN tasks]_vars
    /\ [][\A r \in CreatedRefs : r \notin DOMAIN tasks => r \notin DOMAIN tasks']_vars

\* a continuation has raised while other tasks remain
C13_Witness ==
    /\ last.op = "resume_queue"
    /\ last.out = "TaskErrored"
    /\ last.err = "task"
    /\ last.resumed
    /\ ~contains_task(last.ref)
    /\ DOMAIN tasks # {}

\* C14: a scheduling call given a value that is neither a thread nor a function
\* returns an error and creates nothing: the task store, both lanes, the future
\* set, the guid counter and the registry are after the call as before it.
C14_RejectedCreatesNothing ==
    [][(last' # last /\ last'.out = "err") =>
        UNCHANGED <<guid, tasks, task_queue_instant, task_queue_deferred, futures,
                    registry>>]_vars

\* a call was rejected while tasks, a lane entry and a future were pending
C14_Witness ==
    /\ last.out = "err"
    /\ ~panicked
    /\ DOMAIN tasks # {}
    /\ task_queue_instant # <<>>
    /\ futures # {}

\* the units of work pending: lane entries and futures
Units ==
    Len(task_queue_instant) + Len(task_queue_deferred) + Cardinality(futures)

\* a resume_queue call returns in this step
StepReturns ==
    last' # last /\ last'.op = "resume_queue" /\ last'.out # "panic"

\* C15, as claimed: every resume_queue call consumes exactly one unit of work;
\* stated for the calls that begin and return without suspending.
C15_Original ==
    [][(pc = "idle" /\ StepReturns) => Units' = Units - 1]_vars

\* C15, amended: a resume_queue call that returns Finished consumes nothing and
\* finds nothing pending; every other call consumes exactly one unit, a lane entry
\* when it starts or a completed future when its await ends, and resumes at most
\* one continuation; while a continuation runs no other one is started.
C15_Amended ==
    [][/\ (pc = "idle" /\ StepReturns =>
            IF last'.out = "Finished"
            THEN Units = 0 /\ Units' = 0
            ELSE Units' = Units - 1 /\ futures' = futures /\ ~last'.resumed)
       /\ (pc = "idle" /\ pc' = "running" =>
            Units' = Units - 1 /\ futures' = futures)
       /\ (pc = "idle" /\ pc' = "polling" => Units' = Units)
       /\ (pc = "polling" /\ pc' # "polling" =>
            /\ Cardinality(futures') = Cardinality(futures) - 1
            /\ task_queue_deferred' = task_queue_deferred
            /\ IF pc' = "promoted"
               THEN Len(task_queue_instant') = Len(task_queue_instant) + 1
               ELSE task_queue_instant' = task_queue_instant)
       /\ (pc = "promoted" =>
            \/ pc' = "promoted" /\ cur' = cur
            \/ /\ task_queue_instant' = Tail(task_queue_instant)
               /\ task_queue_deferred' = task_queue_deferred
               /\ futures' = futures)
       /\ (pc = "running" =>
            \/ pc' = "running" /\ cur' = cur
            \/ pc' = "idle" /\ StepReturns /\ last'.resumed /\ Units' = Units)]_vars

\* a call has consumed one completed future and resumed its task, other units
\* still pending
C15_Witness ==
    /\ last.op = "resume_queue"
    /\ last.src = "Future"
    /\ last.resumed
    /\ last.state.num_instant > 0
    /\ last.state.num_future > 0

\* C16: whenever lane entries or futures are pending, stale ones included, the
\* host loop eventually receives Finished, provided it keeps calling resume_queue,
\* every sleep ends, every resumed continuation comes back and only finitely many
\* tasks are scheduled; a run that ends in a panic receives nothing.
C16_EventuallyFinished ==
    (Units > 0) ~> (panicked \/ (last.op = "resume_queue" /\ last.out = "Finished"))

\* the task store is empty and the stale entries of cancelled tasks are pending,
\* one in a lane and one in the future set
C16_Witness ==
    /\ ~panicked
    /\ pc = "idle"
    /\ DOMAIN tasks = {}
    /\ \E r \in cancelled : r \in futures
    /\ \E r \in cancelled : r \in Range(task_queue_instant)

\* a stands before b in the queue q
Before(q, a, b) ==
    \E i, j \in 1..Len(q) : i < j /\ q[i] = a /\ q[j] = b

\* a successful call of the entry point op returns in this step
Scheduled(op) ==
    last' # last /\ last'.op = op /\ last'.out = "ok"

\* C17, as claimed, on the instant lane: of two references placed one after the
\* other by schedule_current_resume, neither by second-position insert, the one
\* inserted first stands before the other and is popped first.
C17_Original ==
    [][(/\ last.op = "schedule_current_resume" /\ last.out = "ok"
        /\ last.ref \in Range(task_queue_instant)
        /\ Scheduled("schedule_current_resume")) =>
            Before(task_queue_instant', last.ref, last'.ref)]_vars

\* C17, amended: the deferred lane is first in, first out (schedule_deferred
\* appends, a pop takes the front, so the lane is always in scheduling order); in
\* the instant lane a pop takes the front too, and schedule_current_resume inserts
\* at the front, so a reference it places stands before, and is popped before,
\* all those placed earlier.
C17_Amended ==
    /\ [](\A i, j \in 1..Len(task_queue_deferred) :
            i < j => task_queue_deferred[i].guid < task_queue_deferred[j].guid)
    /\ [][/\ (Scheduled("schedule_deferred") =>
                task_queue_deferred' = Append(task_queue_deferred, last'.ref))
           /\ (Len(task_queue_deferred') < Len(task_queue_deferred) =>
                task_queue_deferred' = Tail(task_queue_deferred))
           /\ (Scheduled("schedule_current_resume") =>
                task_queue_instant' = <<last'.ref>> \o task_queue_instant)
           /\ (Len(task_queue_instant') < Len(task_queue_instant) =>
                task_queue_instant' = Tail(task_queue_instant))]_vars

\* a deferred task was resumed while one scheduled after it still waits
C17_Witness ==
    /\ last.op = "resume_queue"
    /\ last.src = "Deferred"
    /\ last.resumed
    /\ task_queue_deferred # <<>>
    /\ last.ref.guid < Head(task_queue_deferred).guid

\* C18: a cancel_task call changes only the task store and the registry values of
\* the task it removes: both lanes, the future set, the guid counter and the exit
\* code are after the call as before it, whether it returns true or false, and a
\* call that returns false changes nothing.
C18_CancelFrame ==
    [][(last' # last /\ last'.op = "cancel_task") =>
        /\ UNCHANGED <<task_queue_instant, task_queue_deferred, futures, guid,
                       exit_code_set, exit_code>>
        /\ (last'.out = "false" => UNCHANGED <<tasks, registry>>)
        /\ (last'.out = "true" =>
                /\ DOMAIN tasks' = (DOMAIN tasks) \ {last'.ref}
                /\ DOMAIN registry' = (DOMAIN registry)
                        \ {ThreadKey(last'.ref.guid), ArgsKey(last'.ref.guid)})]_vars

\* cancel_task returned true for a task whose reference is still in a lane
C18_Witness ==
    /\ last.op = "cancel_task"
    /\ last.out = "true"
    /\ last.ref \in Range(task_queue_instant) \cup Range(task_queue_deferred)
    /\ ~contains_task(last.ref)

\* C19: a schedule_delayed or schedule_wait call made while a resume_queue call
\* awaits the future set adds no future to the set and leaves no Future task in
\* the task store without a future of its own.
C19_NoTaskWithoutFuture ==
    [][(/\ pc = "polling"
        /\ last' # last
        /\ last'.op \in {"schedule_delayed", "schedule_wait"}) =>
            /\ futures' = futures
            /\ \A r \in DOMAIN tasks' : r.kind = "Future" => r \in futures']_vars

====
